---- MODULE Spec2Model ----
(***************************************************************************)
(* aws_viewer: the finished-task cache, the task detail loader, the task   *)
(* listing loader, the environment switch and the log-stream locator.      *)
(*                                                                         *)
(* JavaScript strings are sequences of tokens; the token "/" is the path   *)
(* separator, so split, pop, endsWith and startsWith are computed and not  *)
(* assumed.  JavaScript values that may be undefined or thrown are records *)
(* with a "type" field.  A request handler is cut at its awaits: one       *)
(* action runs from one suspension point to the next.                      *)
(***************************************************************************)
EXTENDS Integers, Sequences, FiniteSets, TLC

VARIABLES currentEnvironmentName, finishedTaskCache, liveTasks, show, home,
          call, logStream, logRead, noted

vars == <<currentEnvironmentName, finishedTaskCache, liveTasks, show, home,
          call, logStream, logRead, noted>>

\* the state of the direct calls, of the log read and of the retry
callVars == <<call, logStream, logRead, noted>>

(***************************************************************************)
(* Bounds                                                                  *)
(***************************************************************************)
\* longest batch of log lines one filterLogEvents call returns
MaxEvents == 2

\* most tasks of one status the cluster holds
MaxTasks == 150

\* most events the log stream of a container holds
MaxStream == 3

\* most arns one describeTasks call is handed
MaxBatch == 101

(***************************************************************************)
(* JavaScript values and string functions                                  *)
(***************************************************************************)
undefined == [type |-> "undefined"]

Throw(error) == [type |-> "throw", error |-> error]

\* the undefined value where a string is expected
undefinedString == <<"undefined">>

EmptyRecord == [k \in {} |-> k]

Last(s) == s[Len(s)]

Reverse(s) == [i \in 1..Len(s) |-> s[Len(s) + 1 - i]]

\* String.prototype.startsWith
startsWith(s, prefix) ==
    /\ Len(s) >= Len(prefix)
    /\ SubSeq(s, 1, Len(prefix)) = prefix

\* String.prototype.endsWith
endsWith(s, suffix) ==
    /\ Len(s) >= Len(suffix)
    /\ SubSeq(s, Len(s) - Len(suffix) + 1, Len(s)) = suffix

\* String.prototype.split("/"): the segments between the separators
RECURSIVE split(_)
split(s) ==
    IF \A i \in 1..Len(s) : s[i] # "/"
    THEN <<s>>
    ELSE LET i == CHOOSE k \in 1..Len(s) :
                      s[k] = "/" /\ \A j \in 1..(k - 1) : s[j] # "/"
         IN  <<SubSeq(s, 1, i - 1)>> \o split(SubSeq(s, i + 1, Len(s)))

\* arn.split("/").pop()
TrailingSegment(arn) == Last(split(arn))

(***************************************************************************)
(* config/environment                                                      *)
(***************************************************************************)
\* Object.keys(environments.json envs), in file order
AvailableEnvironments == <<"dev", "prod">>

EnvNames == {AvailableEnvironments[i] : i \in 1..Len(AvailableEnvironments)}

environmentsConfig ==
    [dev  |-> [cluster_name |-> <<"cA">>, log_group_name |-> "gA"],
     prod |-> [cluster_name |-> <<"cB">>, log_group_name |-> "gB"]]

getDefaultEnvironmentName == AvailableEnvironments[1]

\* property names every JavaScript object inherits from Object.prototype
ObjectPrototypeKeys == {"constructor"}

\* config.envs[name]: an own key, else an inherited one, else undefined
EnvsProperty(name) ==
    IF name \in EnvNames
    THEN environmentsConfig[name]
    ELSE IF name \in ObjectPrototypeKeys
    THEN [type |-> "function"]
    ELSE undefined

getCurrentEnvironmentConfig(name) ==
    IF EnvsProperty(name) = undefined
    THEN environmentsConfig[getDefaultEnvironmentName]
    ELSE EnvsProperty(name)

\* setCurrentEnvironment(envName): throws when config.envs[envName] is
\* falsy, else envName becomes the active name
setCurrentEnvironment(envName) ==
    IF EnvsProperty(envName) = undefined
    THEN Throw("Error")
    ELSE [type |-> "set", name |-> envName]

\* names the config form posts while the loaders run: the configured ones
\* and an unknown one
RequestedEnvironments == EnvNames \cup {"stg"}

\* names a client may post to the config action: also none at all and the
\* name of an inherited property
PostedEnvironments == RequestedEnvironments \cup {"", "constructor"}

(***************************************************************************)
(* The cluster, its tasks and its task definitions                         *)
(***************************************************************************)
Arn(cluster, id) == <<"arn:task", "/", cluster, "/", id>>

\* tasks the orchestration API may know, in the order a listing returns them
KnownArns == <<Arn("cA", "t1"), Arn("cB", "t1")>>

KnownArnSet == {KnownArns[i] : i \in 1..Len(KnownArns)}

\* arns[0].split("/")[1]: the cluster segment of a task arn
ClusterOf(arn) == split(arn)[2]

DateValue(t) == [type |-> "Date", value |-> t]

StringValue(t) == [type |-> "string", value |-> t]

\* the Task describeTasks returns for a task the API still knows
DescribedTask(arn) ==
    [type |-> "Task", taskArn |-> arn, startedBy |-> <<"manual">>,
     lastStatus |-> "RUNNING", stoppedAt |-> undefined,
     taskDefinitionArn |-> "td",
     containers |-> <<<<"worker">>, <<"sidecar">>>>]

\* ids a /tasks/:id URL may carry
RequestedTaskIds == {<<"t1">>, <<"t9">>}

AwsLogs(options) == [logDriver |-> "awslogs", options |-> options]

\* what DescribeTaskDefinition may answer with for a task definition arn
TaskDefinitions ==
    { [type |-> "TaskDefinition",
       containerDefinitions |->
         << [name |-> <<"app">>,
             logConfiguration |->
               AwsLogs(("awslogs-group" :> <<"lg">>) @@
                       ("awslogs-stream-prefix" :> <<"ecs">>))],
            [name |-> <<"sidecar">>,
             logConfiguration |-> [logDriver |-> "fluentd"]] >>],
      [type |-> "TaskDefinition",
       containerDefinitions |->
         << [name |-> <<"sidecar">>],
            [name |-> <<"app">>,
             logConfiguration |->
               AwsLogs("awslogs-group" :> <<"lg">>)] >>] }

\* values the awslogs-stream-prefix option may hold, the empty one included
StreamPrefixes == {<<>>, <<"ecs">>, <<"ecs", "/", "web">>}

\* a task definition whose app container logs to awslogs under the prefix
PrefixedTaskDefinition(prefix) ==
    [type |-> "TaskDefinition",
     containerDefinitions |->
       << [name |-> <<"app">>,
           logConfiguration |->
             AwsLogs(("awslogs-group" :> <<"lg">>) @@
                     ("awslogs-stream-prefix" :> prefix))] >>]

\* container names a caller may ask the log stream of
ContainerNames == {<<"app">>, <<"sidecar">>, <<"worker">>}

(***************************************************************************)
(* The event log: one log group per environment                            *)
(***************************************************************************)
EventDetail(arn, startedBy, lastStatus, stoppedAt, containers) ==
    [type |-> "Task", taskArn |-> arn, startedBy |-> startedBy,
     lastStatus |-> lastStatus, stoppedAt |-> stoppedAt,
     taskDefinitionArn |-> "td", containers |-> containers]

\* a line that is not JSON
TextLine == [type |-> "text"]

\* a JSON line without a detail object
NoDetailLine == [type |-> "json"]

EventLine(detail) == [type |-> "json", detail |-> detail]

\* the log lines a log group may hold
LogLines(logGroupName) ==
    IF logGroupName = "gA"
    THEN { EventLine(EventDetail(Arn("cA", "t1"), <<"manual">>, "STOPPED",
                                 StringValue("d1"), <<<<"app">>>>)),
           EventLine(EventDetail(Arn("cA", "t1"), <<"manual">>,
                                 "DEPROVISIONING", undefined, <<<<"app">>>>)),
           EventLine(EventDetail(Arn("cA", "t2"), <<"ecs-svc", "/", "s1">>,
                                 "STOPPED", StringValue("d2"), <<<<"app">>>>)),
           TextLine }
    ELSE { EventLine(EventDetail(Arn("cB", "t1"), undefinedString, "STOPPED",
                                 StringValue("d3"),
                                 <<<<"app">>, <<"sidecar">>>>)),
           NoDetailLine }

\* the batches filterLogEvents may return
RECURSIVE LogBatches(_, _)
LogBatches(logGroupName, n) ==
    IF n = 0
    THEN {<<>>}
    ELSE LET shorter == LogBatches(logGroupName, n - 1)
         IN  shorter \cup
             {Append(b, l) : b \in {s \in shorter : Len(s) = n - 1},
                             l \in LogLines(logGroupName)}

\* the keys of detail that hold dates
dateKeys ==
    {"createdAt", "executionStoppedAt", "pullStartedAt", "pullStoppedAt",
     "startedAt", "stoppingAt", "stoppedAt", "connectivityAt"}

NumberValue(t) == [type |-> "number", value |-> t]

\* JavaScript truthiness of a JSON value: undefined and "" are falsy
Truthy(v) == v.type # "undefined" /\ ~(v.type = "string" /\ v.value = "")

\* the conversion without the typeof check: every truthy value of a date key
\* goes through new Date
ConvertDates_noTypeofCheck(detail) ==
    [key \in DOMAIN detail |->
        IF key \in dateKeys /\ Truthy(detail[key])
        THEN DateValue(detail[key].value)
        ELSE detail[key]]

\* dateKeys.forEach: a truthy, string-typed value becomes a Date
ConvertDates(detail) ==
    [key \in DOMAIN detail |->
        IF key \in dateKeys /\ Truthy(detail[key])
                            /\ detail[key].type = "string"
        THEN DateValue(detail[key].value)
        ELSE detail[key]]

\* aws.ts parseEcsTaskStateChangeEvent: JSON.parse, then the date keys of
\* detail are converted from string to Date
parseEcsTaskStateChangeEvent(message) ==
    IF message.type # "json"
    THEN Throw("SyntaxError")
    ELSE IF "detail" \notin DOMAIN message
    THEN Throw("TypeError")
    ELSE [type |-> "event", detail |-> ConvertDates(message.detail)]

\* values a JSON document may hold under a key of detail
JsonValues == {StringValue("d1"), StringValue(""), NumberValue("n1")}

\* event lines whose detail carries more date fields and a field that is
\* no date key
DatedEventLines ==
    LET base == EventDetail(Arn("cA", "t1"), <<"manual">>, "STOPPED",
                            undefined, <<<<"app">>>>)
    IN  {EventLine([base EXCEPT !.stoppedAt = s]) :
             s \in JsonValues \cup {undefined}}
        \cup
        {EventLine(("createdAt" :> c) @@ ("stopCode" :> o) @@ base) :
             c \in JsonValues, o \in JsonValues}

(***************************************************************************)
(* aws.ts: the finished-task cache                                         *)
(***************************************************************************)
\* StoreLoop keyed by the whole taskArn instead of its trailing segment
RECURSIVE StoreLoop_keyByArn(_, _, _, _)
StoreLoop_keyByArn(cache, env, tasks, i) ==
    IF i > Len(tasks)
    THEN cache
    ELSE LET id == tasks[i].taskArn
             entries == cache[env]
             updated == [k \in DOMAIN entries \cup {id} |->
                            IF k = id THEN tasks[i] ELSE entries[k]]
         IN  StoreLoop_keyByArn([cache EXCEPT ![env] = updated], env, tasks,
                                i + 1)

\* task.taskArn!.split("/") throws for a task that has no taskArn
StoreThrowsAt(tasks, i) == "taskArn" \notin DOMAIN tasks[i]

\* storeFinishedTasks throws on some task of tasks
StoreThrows(tasks) == \E i \in 1..Len(tasks) : StoreThrowsAt(tasks, i)

\* the for loop that writes the first task only
StoreLoop_firstTaskOnly(cache, env, tasks, i) ==
    IF i > Len(tasks) \/ StoreThrowsAt(tasks, i)
    THEN cache
    ELSE LET id == TrailingSegment(tasks[i].taskArn)
             entries == cache[env]
         IN  [cache EXCEPT ![env] =
                 [k \in DOMAIN entries \cup {id} |->
                     IF k = id THEN tasks[i] ELSE entries[k]]]

\* the for loop in which the first task written under an id stays
RECURSIVE StoreLoop_firstWriteWins(_, _, _, _)
StoreLoop_firstWriteWins(cache, env, tasks, i) ==
    IF i > Len(tasks) \/ StoreThrowsAt(tasks, i)
    THEN cache
    ELSE LET id == TrailingSegment(tasks[i].taskArn)
             entries == cache[env]
             written == {TrailingSegment(tasks[j].taskArn) : j \in 1..(i - 1)}
             updated == [k \in DOMAIN entries \cup {id} |->
                            IF k = id /\ id \notin written
                            THEN tasks[i]
                            ELSE entries[k]]
         IN  StoreLoop_firstWriteWins([cache EXCEPT ![env] = updated], env,
                                      tasks, i + 1)

\* the for loop that writes every task into the map of every environment
RECURSIVE StoreLoop_everyEnvironment(_, _, _, _)
StoreLoop_everyEnvironment(cache, env, tasks, i) ==
    IF i > Len(tasks) \/ StoreThrowsAt(tasks, i)
    THEN cache
    ELSE LET id == TrailingSegment(tasks[i].taskArn)
         IN  StoreLoop_everyEnvironment(
                 [e \in DOMAIN cache |->
                     [k \in DOMAIN cache[e] \cup {id} |->
                         IF k = id THEN tasks[i] ELSE cache[e][k]]],
                 env, tasks, i + 1)

\* the for loop of storeFinishedTasks, from task i on: a task without
\* taskArn throws and ends the loop, the tasks before it stay written
RECURSIVE StoreLoop(_, _, _, _)
StoreLoop(cache, env, tasks, i) ==
    IF i > Len(tasks) \/ StoreThrowsAt(tasks, i)
    THEN cache
    ELSE LET id == TrailingSegment(tasks[i].taskArn)
             entries == cache[env]
             updated == [k \in DOMAIN entries \cup {id} |->
                            IF k = id THEN tasks[i] ELSE entries[k]]
         IN  StoreLoop([cache EXCEPT ![env] = updated], env, tasks, i + 1)

\* storeFinishedTasks that starts the environment's map afresh on every call
storeFinishedTasks_resets(cache, env, tasks) ==
    StoreLoop([e \in DOMAIN cache \cup {env} |->
                  IF e = env THEN EmptyRecord ELSE cache[e]],
              env, tasks, 1)

storeFinishedTasks(cache, env, tasks) ==
    LET initialised == IF env \in DOMAIN cache
                       THEN cache
                       ELSE [e \in DOMAIN cache \cup {env} |->
                               IF e = env THEN EmptyRecord ELSE cache[e]]
    IN  StoreLoop(initialised, env, tasks, 1)

\* getFinishedTask that reads the default environment's map
getFinishedTask_defaultEnv(cache, env, taskId) ==
    IF getDefaultEnvironmentName \notin DOMAIN cache
    THEN Throw("TypeError")
    ELSE IF taskId \in DOMAIN cache[getDefaultEnvironmentName]
    THEN cache[getDefaultEnvironmentName][taskId]
    ELSE undefined

\* getFinishedTask that answers with a task of its own making for an id
\* that is not in the map
getFinishedTask_inventsTask(cache, env, taskId) ==
    IF env \notin DOMAIN cache
    THEN Throw("TypeError")
    ELSE IF taskId \in DOMAIN cache[env]
    THEN cache[env][taskId]
    ELSE [type |-> "Task", taskArn |-> <<"arn:task", "/", "cX", "/">> \o taskId,
          startedBy |-> <<"manual">>, lastStatus |-> "STOPPED",
          stoppedAt |-> undefined, taskDefinitionArn |-> "td",
          containers |-> <<<<"app">>>>]

\* getFinishedTask that finds nothing in the map of the environment
getFinishedTask_neverCached(cache, env, taskId) ==
    IF env \notin DOMAIN cache THEN Throw("TypeError") ELSE undefined

getFinishedTask(cache, env, taskId) ==
    IF env \notin DOMAIN cache
    THEN Throw("TypeError")
    ELSE IF taskId \in DOMAIN cache[env]
    THEN cache[env][taskId]
    ELSE undefined

(***************************************************************************)
(* aws.ts: getLogStream                                                    *)
(***************************************************************************)
\* Array.prototype.find by container name
FindContainer(containerDefinitions, containerName) ==
    LET hits == {i \in 1..Len(containerDefinitions) :
                    containerDefinitions[i].name = containerName}
    IN  IF hits = {}
        THEN undefined
        ELSE containerDefinitions[CHOOSE i \in hits : \A j \in hits : i <= j]

\* getLogStream without the log driver check
getLogStream_anyDriver(taskdef, taskId, containerName) ==
    IF taskdef = undefined
    THEN Throw("TypeError")
    ELSE LET appContainer ==
                 IF "containerDefinitions" \in DOMAIN taskdef
                 THEN FindContainer(taskdef.containerDefinitions, containerName)
                 ELSE undefined
         IN  IF appContainer = undefined
             THEN undefined
             ELSE IF "logConfiguration" \notin DOMAIN appContainer
             THEN Throw("TypeError")
             ELSE LET log == appContainer.logConfiguration
                      options == IF "options" \in DOMAIN log
                                 THEN log.options
                                 ELSE EmptyRecord
                      prefix == IF "awslogs-stream-prefix" \in DOMAIN options
                                THEN options["awslogs-stream-prefix"]
                                ELSE <<>>
                      group == IF "awslogs-group" \in DOMAIN options
                               THEN options["awslogs-group"]
                               ELSE undefinedString
                  IN  [type |-> "LogStream",
                       group |-> group,
                       stream |-> prefix \o <<"/">> \o containerName
                                         \o <<"/">> \o taskId]

\* the prefix without the || "": an unset option is the string "undefined"
StreamPrefix_noDefault(options) ==
    IF "awslogs-stream-prefix" \in DOMAIN options
    THEN options["awslogs-stream-prefix"]
    ELSE undefinedString

\* log.options?.["awslogs-stream-prefix"] || "": an unset option and an empty
\* one both give the empty string
StreamPrefix(options) ==
    IF "awslogs-stream-prefix" \in DOMAIN options
       /\ options["awslogs-stream-prefix"] # <<>>
    THEN options["awslogs-stream-prefix"]
    ELSE <<>>

getLogStream(taskdef, taskId, containerName) ==
    IF taskdef = undefined
    THEN Throw("TypeError")
    ELSE LET appContainer ==
                 IF "containerDefinitions" \in DOMAIN taskdef
                 THEN FindContainer(taskdef.containerDefinitions, containerName)
                 ELSE undefined
         IN  IF appContainer = undefined
             THEN undefined
             ELSE IF "logConfiguration" \notin DOMAIN appContainer
             THEN Throw("TypeError")
             ELSE LET log == appContainer.logConfiguration
                      options == IF "options" \in DOMAIN log
                                 THEN log.options
                                 ELSE EmptyRecord
                      prefix == StreamPrefix(options)
                      group == IF "awslogs-group" \in DOMAIN options
                               THEN options["awslogs-group"]
                               ELSE undefinedString
                  IN  IF log.logDriver # "awslogs"
                      THEN undefined
                      ELSE [type |-> "LogStream",
                            group |-> group,
                            stream |-> prefix \o <<"/">> \o containerName
                                              \o <<"/">> \o taskId]

(***************************************************************************)
(* aws.ts: the orchestration API as the handlers see it                    *)
(***************************************************************************)
STATUSES == <<"RUNNING", "PENDING", "STOPPED">>

\* pageSize of paginateListTasks
PageSize == 100

\* no continuation token: the first request carries none, the last page
\* returns none
NoToken == 0

Min(a, b) == IF a <= b THEN a ELSE b

RECURSIVE Flat(_)
\* Array.prototype.flat of an array of arrays
Flat(arrays) ==
    IF arrays = <<>> THEN <<>> ELSE Head(arrays) \o Flat(Tail(arrays))

\* ListTasks: the page of items after the offset token, and the token of the
\* next page while items remain
ListTasksPage(items, token) ==
    LET end == Min(token + PageSize, Len(items))
    IN  [taskArns |-> SubSeq(items, token + 1, end),
         nextToken |-> IF end < Len(items) THEN end ELSE NoToken]

\* the paginator that yields the first page only
paginateListTasks_firstPageOnly(items, token, arns, requests, failAt) ==
    IF requests + 1 = failAt
    THEN [type |-> "throw", error |-> "UpstreamError",
          requests |-> requests + 1]
    ELSE [type |-> "fulfilled",
          arns |-> arns \o ListTasksPage(items, token).taskArns,
          requests |-> requests + 1]

\* for await (const page of paginateListTasks(...)) arns.push(...): request
\* after request until a page returns no token; request number failAt is
\* the one that fails, if any
RECURSIVE paginateListTasks(_, _, _, _, _)
paginateListTasks(items, token, arns, requests, failAt) ==
    IF requests + 1 = failAt
    THEN [type |-> "throw", error |-> "UpstreamError",
          requests |-> requests + 1]
    ELSE LET page == ListTasksPage(items, token)
             collected == arns \o page.taskArns
         IN  IF page.nextToken = NoToken
             THEN [type |-> "fulfilled", arns |-> collected,
                   requests |-> requests + 1]
             ELSE paginateListTasks(items, page.nextToken, collected,
                                    requests + 1, failAt)

\* a join that keeps what was fulfilled and drops what was rejected
PromiseAll_fulfilledOnly(settled) ==
    [type |-> "fulfilled",
     values |-> SelectSeq(settled, LAMBDA r : r.type # "throw")]

\* Promise.all: rejected as soon as one promise is, else every value in order
PromiseAll(settled) ==
    LET rejected == {i \in 1..Len(settled) : settled[i].type = "throw"}
    IN  IF rejected # {}
        THEN Throw(settled[CHOOSE i \in rejected :
                               \A j \in rejected : i <= j].error)
        ELSE [type |-> "fulfilled", values |-> settled]

\* STATUSES.map(async (status) => ...): one paginated listing per status
allTaskArnsPromises(tasksByStatus, failAt) ==
    [i \in 1..Len(STATUSES) |->
        paginateListTasks(tasksByStatus[STATUSES[i]], NoToken, <<>>, 0,
                          failAt[STATUSES[i]])]

\* (await Promise.all(allTaskArnsPromises)).flat()
listEcsTaskArnsOf(tasksByStatus, failAt) ==
    LET joined == PromiseAll(allTaskArnsPromises(tasksByStatus, failAt))
    IN  IF joined.type = "throw"
        THEN joined
        ELSE [type |-> "fulfilled",
              arns |-> Flat([i \in 1..Len(joined.values) |->
                                joined.values[i].arns])]

\* no request fails
NoFailure == [status \in {STATUSES[i] : i \in 1..Len(STATUSES)} |-> 0]

\* listEcsTaskArns: the identifiers of the cluster's tasks, which are all
\* running, when no request fails
listEcsTaskArns(live, clusterName) ==
    listEcsTaskArnsOf(
        [status \in {STATUSES[i] : i \in 1..Len(STATUSES)} |->
            IF status = "RUNNING"
            THEN SelectSeq(KnownArns,
                           LAMBDA arn : arn \in live
                                        /\ ClusterOf(arn) = clusterName)
            ELSE <<>>],
        NoFailure).arns

\* the DescribeTasks commands sent although arns is empty
DescribeTasksCommands_noEarlyReturn(arns) ==
    <<[cluster |-> IF Len(arns) = 0
                   THEN undefinedString
                   ELSE ClusterOf(arns[1]),
       tasks |-> arns]>>

\* the DescribeTasks commands of a describeTasks that sends one command per
\* hundred arns
DescribeTasksCommands_perHundred(arns) ==
    IF Len(arns) = 0
    THEN <<>>
    ELSE [k \in 1..((Len(arns) + 99) \div 100) |->
             [cluster |-> ClusterOf(arns[1]),
              tasks |-> SubSeq(arns, (k - 1) * 100 + 1,
                               Min(k * 100, Len(arns)))]]

\* the DescribeTasks commands describeTasks sends: none for an empty arns,
\* else one for all arns, to the cluster of the first
DescribeTasksCommands(arns) ==
    IF Len(arns) = 0
    THEN <<>>
    ELSE <<[cluster |-> ClusterOf(arns[1]), tasks |-> arns]>>

\* describeTasks: the tasks among arns that the API still knows
describeTasks(live, arns) ==
    LET known == SelectSeq(arns, LAMBDA arn : arn \in live)
    IN  [i \in 1..Len(known) |-> DescribedTask(known[i])]

\* the DescribeTaskDefinition commands describeTaskDefinitions sends: one
\* per element of arns
DescribeTaskDefinitionCommands(arns) ==
    [i \in 1..Len(arns) |-> [taskDefinition |-> arns[i]]]

\* describeTaskDefinitions: the answers joined, the undefined ones dropped
describeTaskDefinitions(answers) ==
    LET joined == PromiseAll(answers)
    IN  IF joined.type = "throw"
        THEN joined
        ELSE [type |-> "fulfilled",
              taskDefinitions |->
                  SelectSeq(joined.values, LAMBDA def : def # undefined)]

(***************************************************************************)
(* routes/tasks/show.tsx: the detail loader                                *)
(***************************************************************************)
NoEnvConfig == [cluster_name |-> <<>>, log_group_name |-> ""]

ShowIdle ==
    [pc |-> "idle", taskId |-> <<>>, envConfig |-> NoEnvConfig,
     cachedAtStart |-> undefined,
     allTaskArns |-> <<>>, targetTaskArn |-> undefinedString,
     tasks |-> <<>>, task |-> undefined, taskDefinition |-> undefined,
     containerLogs |-> <<>>, listCalls |-> 0, describeCalls |-> 0,
     resolved |-> "pending", outcome |-> "pending"]

\* allTaskArns.find((arn) => arn.endsWith(`/${taskId}`))
FindTaskArn(allTaskArns, taskId) ==
    LET hits == {i \in 1..Len(allTaskArns) :
                    endsWith(allTaskArns[i], <<"/">> \o taskId)}
    IN  IF hits = {}
        THEN undefinedString
        ELSE allTaskArns[CHOOSE i \in hits : \A j \in hits : i <= j]

ShowFail(request, error) ==
    [request EXCEPT !.pc = "done", !.resolved = error, !.outcome = error]

\* loader entry up to the first await: the cache lookup, then the listing call
ShowStart(taskId) ==
    /\ show.pc = "idle"
    /\ LET env == currentEnvironmentName
           task == getFinishedTask(finishedTaskCache, env, taskId)
           cached == /\ env \in DOMAIN finishedTaskCache
                     /\ taskId \in DOMAIN finishedTaskCache[env]
           request ==
               [ShowIdle EXCEPT
                  !.taskId = taskId,
                  !.envConfig = getCurrentEnvironmentConfig(env),
                  !.cachedAtStart = IF cached
                                    THEN finishedTaskCache[env][taskId]
                                    ELSE undefined]
       IN  show' =
             IF task.type = "throw"
             THEN ShowFail(request, task.error)
             ELSE IF task # undefined
             THEN [request EXCEPT !.pc = "awaitTaskDef", !.task = task,
                                  !.resolved = "cache"]
             ELSE [request EXCEPT !.pc = "awaitList", !.listCalls = @ + 1]
    /\ UNCHANGED <<currentEnvironmentName, finishedTaskCache, liveTasks, home,
                 callVars>>

\* listEcsTaskArns settles: find the arn, then the describe call
ShowListReturn(ok) ==
    /\ show.pc = "awaitList"
    /\ LET allTaskArns == listEcsTaskArns(liveTasks, show.envConfig.cluster_name)
           targetTaskArn == FindTaskArn(allTaskArns, show.taskId)
       IN  show' =
             IF ~ok
             THEN ShowFail(show, "UpstreamError")
             ELSE IF targetTaskArn = undefinedString
             THEN ShowFail([show EXCEPT !.allTaskArns = allTaskArns], "NotFound")
             ELSE [show EXCEPT !.pc = "awaitDescribe",
                               !.allTaskArns = allTaskArns,
                               !.targetTaskArn = targetTaskArn,
                               !.describeCalls = @ + 1]
    /\ UNCHANGED <<currentEnvironmentName, finishedTaskCache, liveTasks, home,
                 callVars>>

\* ShowDescribeReturn without the tasks.length === 0 check: tasks[0] is used
\* as it is, and reading taskDefinitionArn of undefined throws
ShowDescribeReturn_noEmptyCheck(ok) ==
    /\ show.pc = "awaitDescribe"
    /\ LET tasks == describeTasks(liveTasks, <<show.targetTaskArn>>)
       IN  show' =
             IF ~ok
             THEN ShowFail(show, "UpstreamError")
             ELSE IF Len(tasks) = 0
             THEN [show EXCEPT !.pc = "done", !.tasks = tasks,
                               !.resolved = "live", !.outcome = "TypeError"]
             ELSE [show EXCEPT !.pc = "awaitTaskDef", !.tasks = tasks,
                               !.task = tasks[1], !.resolved = "live"]
    /\ UNCHANGED <<currentEnvironmentName, finishedTaskCache, liveTasks, home,
                 callVars>>

\* describeTasks([targetTaskArn]) settles
ShowDescribeReturn(ok) ==
    /\ show.pc = "awaitDescribe"
    /\ LET tasks == describeTasks(liveTasks, <<show.targetTaskArn>>)
       IN  show' =
             IF ~ok
             THEN ShowFail(show, "UpstreamError")
             ELSE IF Len(tasks) = 0
             THEN ShowFail([show EXCEPT !.tasks = tasks], "NotFound")
             ELSE [show EXCEPT !.pc = "awaitTaskDef", !.tasks = tasks,
                               !.task = tasks[1], !.resolved = "live"]
    /\ UNCHANGED <<currentEnvironmentName, finishedTaskCache, liveTasks, home,
                 callVars>>

\* displayTask.containers.map: getLogStream per container of the task
ContainerLogStreams(taskDefinition, task) ==
    [i \in 1..Len(task.containers) |->
        [containerName |-> task.containers[i],
         logStream |-> getLogStream(taskDefinition,
                                    TrailingSegment(task.taskArn),
                                    task.containers[i])]]

\* describeTaskDefinitions settles: the log stream of every container is
\* located and the log reads are started
ShowTaskDefReturn(ok, answer) ==
    /\ show.pc = "awaitTaskDef"
    /\ LET containerLogs == ContainerLogStreams(answer, show.task)
           thrown == {i \in 1..Len(containerLogs) :
                         containerLogs[i].logStream.type = "throw"}
           reads == {i \in 1..Len(containerLogs) :
                        containerLogs[i].logStream.type = "LogStream"}
           located == [show EXCEPT !.taskDefinition = answer,
                                   !.containerLogs = containerLogs]
       IN  show' =
             IF ~ok
             THEN [show EXCEPT !.pc = "done", !.outcome = "UpstreamError"]
             ELSE IF thrown # {}
             THEN [located EXCEPT !.pc = "done", !.outcome = "TypeError"]
             ELSE IF reads = {}
             THEN [located EXCEPT !.pc = "done", !.outcome = "ok"]
             ELSE [located EXCEPT !.pc = "awaitLogs"]
    /\ UNCHANGED <<currentEnvironmentName, finishedTaskCache, liveTasks, home,
                 callVars>>

\* the getLogEvents calls settle
ShowLogsReturn(ok) ==
    /\ show.pc = "awaitLogs"
    /\ show' = [show EXCEPT !.pc = "done",
                            !.outcome = IF ok THEN "ok" ELSE "UpstreamError"]
    /\ UNCHANGED <<currentEnvironmentName, finishedTaskCache, liveTasks, home,
                 callVars>>

\* the response is sent and the next detail request may arrive
ShowRespond ==
    /\ show.pc = "done"
    /\ show' = ShowIdle
    /\ UNCHANGED <<currentEnvironmentName, finishedTaskCache, liveTasks, home,
                 callVars>>

(***************************************************************************)
(* routes/home.tsx: the listing loader                                     *)
(***************************************************************************)
HomeIdle ==
    [pc |-> "idle", envConfig |-> NoEnvConfig, events |-> <<>>,
     finishedTasks |-> <<>>, storedUnder |-> "", outcome |-> "pending"]

HomeFail(request, error) ==
    [request EXCEPT !.pc = "done", !.outcome = error]

\* the filter without the optional chaining: a task with no startedBy is
\* dropped
NotServiceStarted_dropsUnset(task) ==
    /\ task.startedBy # undefinedString
    /\ ~startsWith(task.startedBy, <<"ecs-svc", "/">>)

\* !task.startedBy?.startsWith("ecs-svc/")
NotServiceStarted(task) ==
    \/ task.startedBy = undefinedString
    \/ ~startsWith(task.startedBy, <<"ecs-svc", "/">>)

\* finishedTasks: map(parse ... .detail).filter(...).reverse()
FinishedTasksOf(parsed) ==
    LET details == [i \in 1..Len(parsed) |-> parsed[i].detail]
    IN  Reverse(SelectSeq(details, NotServiceStarted))

\* loader entry up to the first await: the listing call of currentTasks
HomeStart ==
    /\ home.pc = "idle"
    /\ home' = [HomeIdle EXCEPT
                  !.pc = "awaitList",
                  !.envConfig =
                      getCurrentEnvironmentConfig(currentEnvironmentName)]
    /\ UNCHANGED <<currentEnvironmentName, finishedTaskCache, liveTasks, show,
                 callVars>>

\* listEcsTaskArns settles: describeTasks is called, which returns at once
\* for an empty batch, and then filterLogEvents
HomeListReturn(ok) ==
    /\ home.pc = "awaitList"
    /\ LET arns == listEcsTaskArns(liveTasks, home.envConfig.cluster_name)
       IN  home' =
             IF ~ok
             THEN HomeFail(home, "UpstreamError")
             ELSE IF DescribeTasksCommands(arns) = <<>>
             THEN [home EXCEPT !.pc = "awaitFilter"]
             ELSE [home EXCEPT !.pc = "awaitDescribe"]
    /\ UNCHANGED <<currentEnvironmentName, finishedTaskCache, liveTasks, show,
                 callVars>>

\* describeTasks settles: filterLogEvents is called
HomeDescribeReturn(ok) ==
    /\ home.pc = "awaitDescribe"
    /\ home' = IF ok
               THEN [home EXCEPT !.pc = "awaitFilter"]
               ELSE HomeFail(home, "UpstreamError")
    /\ UNCHANGED <<currentEnvironmentName, finishedTaskCache, liveTasks, show,
                 callVars>>

\* HomeFilterReturn that stores the events before the first one whose parse
\* throws
HomeFilterReturn_storesBeforeParse(ok, events) ==
    /\ home.pc = "awaitFilter"
    /\ LET parsed == [i \in 1..Len(events) |->
                         parseEcsTaskStateChangeEvent(events[i])]
           thrown == {i \in 1..Len(parsed) : parsed[i].type = "throw"}
           first == IF thrown = {}
                    THEN Len(parsed) + 1
                    ELSE CHOOSE i \in thrown : \A j \in thrown : i <= j
           finishedTasks == FinishedTasksOf(SubSeq(parsed, 1, first - 1))
       IN  IF ~ok
           THEN /\ home' = HomeFail(home, "UpstreamError")
                /\ UNCHANGED finishedTaskCache
           ELSE /\ finishedTaskCache' =
                      storeFinishedTasks(finishedTaskCache,
                                         currentEnvironmentName, finishedTasks)
                /\ home' = [home EXCEPT
                              !.pc = "done",
                              !.outcome = IF thrown # {}
                                          THEN parsed[first].error
                                          ELSE IF StoreThrows(finishedTasks)
                                          THEN "TypeError"
                                          ELSE "ok",
                              !.events = events,
                              !.finishedTasks = finishedTasks,
                              !.storedUnder = currentEnvironmentName]
    /\ UNCHANGED <<currentEnvironmentName, liveTasks, show,
                 callVars>>

\* filterLogEvents settles with the batch events: parse, filter, reverse,
\* store; a throw inside storeFinishedTasks fails the request after the
\* tasks before the throwing one were written
HomeFilterReturn(ok, events) ==
    /\ home.pc = "awaitFilter"
    /\ LET parsed == [i \in 1..Len(events) |->
                         parseEcsTaskStateChangeEvent(events[i])]
           thrown == {i \in 1..Len(parsed) : parsed[i].type = "throw"}
           finishedTasks == FinishedTasksOf(parsed)
       IN  IF ~ok
           THEN /\ home' = HomeFail(home, "UpstreamError")
                /\ UNCHANGED finishedTaskCache
           ELSE IF thrown # {}
           THEN /\ home' = HomeFail([home EXCEPT !.events = events],
                             parsed[CHOOSE i \in thrown :
                                        \A j \in thrown : i <= j].error)
                /\ UNCHANGED finishedTaskCache
           ELSE /\ finishedTaskCache' =
                      storeFinishedTasks(finishedTaskCache,
                                         currentEnvironmentName, finishedTasks)
                /\ home' = [home EXCEPT !.pc = "done",
                                        !.outcome = IF StoreThrows(finishedTasks)
                                                    THEN "TypeError"
                                                    ELSE "ok",
                                        !.events = events,
                                        !.finishedTasks = finishedTasks,
                                        !.storedUnder = currentEnvironmentName]
    /\ UNCHANGED <<currentEnvironmentName, liveTasks, show,
                 callVars>>

\* the response is sent and the next listing request may arrive
HomeRespond ==
    /\ home.pc = "done"
    /\ home' = HomeIdle
    /\ UNCHANGED <<currentEnvironmentName, finishedTaskCache, liveTasks, show,
                 callVars>>

(***************************************************************************)
(* routes/config.tsx: the environment switch                               *)
(***************************************************************************)
\* what action answers with: an error for a missing name and for a failed
\* setCurrentEnvironment, else the redirect
ActionResponse(newEnvironment) ==
    IF newEnvironment = ""
    THEN Throw("Error")
    ELSE IF setCurrentEnvironment(newEnvironment).type = "throw"
    THEN Throw("Error")
    ELSE [type |-> "redirect", location |-> "/config"]

\* the active name after action has run
EnvironmentAfter(current, newEnvironment) ==
    IF ActionResponse(newEnvironment).type = "throw"
    THEN current
    ELSE setCurrentEnvironment(newEnvironment).name

\* action: setCurrentEnvironment(newEnvironment), then redirect or rethrow
ConfigAction(envName) ==
    /\ currentEnvironmentName' =
           EnvironmentAfter(currentEnvironmentName, envName)
    /\ UNCHANGED <<finishedTaskCache, liveTasks, show, home,
                 callVars>>

(***************************************************************************)
(* The cluster changes on its own                                          *)
(***************************************************************************)
TaskAppears(arn) ==
    /\ arn \notin liveTasks
    /\ liveTasks' = liveTasks \cup {arn}
    /\ UNCHANGED <<currentEnvironmentName, finishedTaskCache, show, home,
                 callVars>>

TaskVanishes(arn) ==
    /\ arn \in liveTasks
    /\ liveTasks' = liveTasks \ {arn}
    /\ UNCHANGED <<currentEnvironmentName, finishedTaskCache, show, home,
                 callVars>>

(***************************************************************************)
(* The functions of aws.ts and the config action, called one at a time     *)
(***************************************************************************)
\* no call has been made
NoCall == [op |-> "none"]

\* every call leaves the loaders, the cache, the cluster and the log read
\* alone
CallFrame ==
    UNCHANGED <<finishedTaskCache, liveTasks, show, home, logStream, logRead,
                noted>>

\* getLogStream(taskdef, taskId, containerName)
GetLogStreamCall(taskdef, taskId, containerName) ==
    /\ call.op = "none"
    /\ call' = [op |-> "getLogStream", taskdef |-> taskdef,
                taskId |-> taskId, containerName |-> containerName,
                logStream |-> getLogStream(taskdef, taskId, containerName)]
    /\ UNCHANGED currentEnvironmentName
    /\ CallFrame

\* parseEcsTaskStateChangeEvent(message)
ParseCall(message) ==
    /\ call.op = "none"
    /\ call' = [op |-> "parseEcsTaskStateChangeEvent", message |-> message,
                parsedEvent |-> parseEcsTaskStateChangeEvent(message)]
    /\ UNCHANGED currentEnvironmentName
    /\ CallFrame

\* numbers of tasks one status of the cluster may hold
TaskCounts == {0, 1, PageSize, MaxTasks}

StatusSet == {STATUSES[i] : i \in 1..Len(STATUSES)}

\* the identifiers of the n tasks of one status, in listing order
TaskIdentifiers(status, n) == [i \in 1..n |-> <<status, i>>]

\* listEcsTaskArns on a cluster holding counts[status] tasks per status,
\* where request number failAt[status] of a status fails (0: none does)
ListCall(counts, failAt) ==
    /\ call.op = "none"
    /\ LET tasksByStatus == [status \in StatusSet |->
                                TaskIdentifiers(status, counts[status])]
       IN  call' = [op |-> "listEcsTaskArns", counts |-> counts,
                    settled |-> allTaskArnsPromises(tasksByStatus, failAt),
                    listed |-> listEcsTaskArnsOf(tasksByStatus, failAt)]
    /\ UNCHANGED currentEnvironmentName
    /\ CallFrame

\* arns a caller may hand to describeTasks
DescribeInputs ==
    {<<>>} \cup {<<KnownArns[i]>> : i \in 1..Len(KnownArns)}
           \cup {<<KnownArns[1], KnownArns[2]>>,
                 <<KnownArns[2], KnownArns[1]>>}
           \cup {[i \in 1..MaxBatch |-> Arn("cB", ToString(i))]}

\* describeTasks(arns)
DescribeTasksCall(arns) ==
    /\ call.op = "none"
    /\ call' = [op |-> "describeTasks", arns |-> arns,
                commands |-> DescribeTasksCommands(arns),
                tasks |-> describeTasks(liveTasks, arns)]
    /\ UNCHANGED currentEnvironmentName
    /\ CallFrame

\* task definition arns a caller may hand to describeTaskDefinitions
TaskDefinitionArnInputs ==
    {<<>>, <<"td">>, <<"td", "td">>, <<"td", "td2">>}

\* what one DescribeTaskDefinition call may settle with
TaskDefinitionAnswers ==
    {PrefixedTaskDefinition(<<"ecs">>), undefined, Throw("UpstreamError")}

\* describeTaskDefinitions(arns), call i settling with answers[i]
DescribeTaskDefinitionsCall(arns, answers) ==
    /\ call.op = "none"
    /\ call' = [op |-> "describeTaskDefinitions", arns |-> arns,
                commands |-> DescribeTaskDefinitionCommands(arns),
                raws |-> answers,
                defs |-> describeTaskDefinitions(answers)]
    /\ UNCHANGED currentEnvironmentName
    /\ CallFrame

\* the config action with its response
ConfigCall(envName) ==
    /\ call.op = "none"
    /\ currentEnvironmentName' =
           EnvironmentAfter(currentEnvironmentName, envName)
    /\ call' = [op |-> "action", newEnvironment |-> envName,
                before |-> currentEnvironmentName,
                response |-> ActionResponse(envName)]
    /\ CallFrame

\* the caller has its answer and the next call may be made
CallReturn ==
    /\ call.op # "none"
    /\ call' = NoCall
    /\ UNCHANGED currentEnvironmentName
    /\ CallFrame

(***************************************************************************)
(* aws.ts getLogEvents: the read of one log stream from its tail           *)
(***************************************************************************)
\* values of limit a caller may pass
LogLimits == {1, 2}

\* no token: the first request carries none
NoLogToken == -1

\* most requests one log read makes: more than a stream within its bound
\* can make it send
MaxRequests == 6

\* GetLogEvents with startFromHead false on a stream of n events, which are
\* numbered in order: without a token the last limit events, with a token
\* the next limit events after it; nextForwardToken is the position read up
\* to, so a request at the tail is answered with its own token
GetLogEventsPage(n, token, limit) ==
    IF token = NoLogToken
    THEN [events |-> [i \in 1..Min(limit, n) |-> n - Min(limit, n) + i],
          nextForwardToken |-> n]
    ELSE LET end == Min(token + limit, n)
         IN  [events |-> [i \in 1..(end - token) |-> token + i],
              nextForwardToken |-> end]

LogIdle ==
    [pc |-> "idle", limit |-> 0, token |-> NoLogToken, events |-> <<>>,
     requests |-> 0, requestToken |-> NoLogToken,
     responseToken |-> NoLogToken, outcome |-> "pending"]

LogFrame ==
    UNCHANGED <<currentEnvironmentName, finishedTaskCache, liveTasks, show,
                home, call, noted>>

\* getLogEvents(logGroupName, logStreamName, limit) up to the first request
LogStart(limit) ==
    /\ logRead.pc = "idle"
    /\ logRead' = [LogIdle EXCEPT !.pc = "awaitPage", !.limit = limit]
    /\ UNCHANGED logStream
    /\ LogFrame

\* the paginator without stopOnSameToken: any token asks for one more page
LogPageReturn_noStopOnSameToken(ok) ==
    /\ logRead.pc = "awaitPage"
    /\ logRead.requests < MaxRequests
    /\ LET page == GetLogEventsPage(logStream, logRead.token, logRead.limit)
           token == page.nextForwardToken
           hasNext == token # NoLogToken
           received ==
               [logRead EXCEPT !.events = @ \o page.events,
                               !.requests = @ + 1,
                               !.requestToken = logRead.token,
                               !.responseToken = token,
                               !.token = token]
       IN  logRead' =
             IF ~ok
             THEN [logRead EXCEPT !.pc = "done", !.requests = @ + 1,
                                  !.outcome = "UpstreamError"]
             ELSE IF hasNext
             THEN received
             ELSE [received EXCEPT !.pc = "done", !.outcome = "ok"]
    /\ UNCHANGED logStream
    /\ LogFrame

\* one request of paginateGetLogEvents settles: the page's events are
\* pushed, and with stopOnSameToken the loop ends when the page returns the
\* token its request carried
LogPageReturn(ok) ==
    /\ logRead.pc = "awaitPage"
    /\ logRead.requests < MaxRequests
    /\ LET page == GetLogEventsPage(logStream, logRead.token, logRead.limit)
           prevToken == logRead.token
           token == page.nextForwardToken
           hasNext == token # NoLogToken /\ token # prevToken
           received ==
               [logRead EXCEPT !.events = @ \o page.events,
                               !.requests = @ + 1,
                               !.requestToken = prevToken,
                               !.responseToken = token,
                               !.token = token]
       IN  logRead' =
             IF ~ok
             THEN [logRead EXCEPT !.pc = "done", !.requests = @ + 1,
                                  !.outcome = "UpstreamError"]
             ELSE IF hasNext
             THEN received
             ELSE [received EXCEPT !.pc = "done", !.outcome = "ok"]
    /\ UNCHANGED logStream
    /\ LogFrame

\* getLogEvents has returned and the next read may start
LogRespond ==
    /\ logRead.pc = "done"
    /\ logRead' = LogIdle
    /\ UNCHANGED logStream
    /\ LogFrame

\* the task writes one more event to the stream
LogAppend ==
    /\ logStream < MaxStream
    /\ logStream' = logStream + 1
    /\ UNCHANGED logRead
    /\ LogFrame

(***************************************************************************)
(* A detail request that is retried after a listing request                *)
(***************************************************************************)
\* an event of another kind: its detail is no task and has no taskArn
OtherEventLine ==
    EventLine([type |-> "ServiceAction", startedBy |-> undefinedString])

\* the lines the log groups hold while detail requests are retried: the
\* events of two tasks, an event whose detail has no taskArn, a line that is
\* not JSON
HistoryLogLines(logGroupName) ==
    IF logGroupName = "gA"
    THEN { EventLine(EventDetail(Arn("cA", "t1"), <<"manual">>, "STOPPED",
                                 StringValue("d1"), <<<<"app">>>>)),
           EventLine(EventDetail(Arn("cA", "t9"), <<"manual">>, "STOPPED",
                                 StringValue("d2"), <<<<"app">>>>)),
           OtherEventLine,
           TextLine }
    ELSE { EventLine(EventDetail(Arn("cB", "t1"), undefinedString, "STOPPED",
                                 StringValue("d3"), <<<<"app">>>>)) }

\* the batches of at most n lines out of lines
RECURSIVE BatchesOf(_, _)
BatchesOf(lines, n) ==
    IF n = 0
    THEN {<<>>}
    ELSE LET shorter == BatchesOf(lines, n - 1)
         IN  shorter \cup
             {Append(b, l) : b \in {s \in shorter : Len(s) = n - 1},
                             l \in lines}

\* the environment whose configuration a request read
EnvironmentOf(envConfig) ==
    CHOOSE env \in EnvNames : environmentsConfig[env] = envConfig

\* the trailing ids of the tasks of a batch that storeFinishedTasks writes:
\* those before the first task without taskArn
RECURSIVE StoredIds(_)
StoredIds(tasks) ==
    IF tasks = <<>> \/ StoreThrowsAt(tasks, 1)
    THEN {}
    ELSE {TrailingSegment(tasks[1].taskArn)} \cup StoredIds(Tail(tasks))

\* the id the retried detail requests carry
HistoryTaskIds == {<<"t1">>}

\* no detail request is waiting for its retry
NoNote == [taskId |-> <<>>, env |-> "", stored |-> FALSE]

\* the detail response is sent; a NotFound answer is what a client retries
ShowRespondNoted ==
    /\ show.pc = "done"
    /\ show' = ShowIdle
    /\ noted' = IF show.outcome = "NotFound"
                THEN [taskId |-> show.taskId,
                      env |-> EnvironmentOf(show.envConfig),
                      stored |-> FALSE]
                ELSE NoNote
    /\ UNCHANGED <<currentEnvironmentName, finishedTaskCache, liveTasks, home,
                 call, logStream, logRead>>

\* the listing response is sent; a listing request that completes while no
\* detail request runs, having stored the id a client waits for under the
\* environment of the failed detail request, lets the client retry
HomeRespondNoted ==
    /\ home.pc = "done"
    /\ home' = HomeIdle
    /\ noted' = IF /\ noted.env # ""
                   /\ show.pc = "idle"
                   /\ home.outcome = "ok"
                   /\ home.storedUnder = noted.env
                   /\ noted.taskId \in StoredIds(home.finishedTasks)
                THEN [noted EXCEPT !.stored = TRUE]
                ELSE noted
    /\ UNCHANGED <<currentEnvironmentName, finishedTaskCache, liveTasks, show,
                 call, logStream, logRead>>

(***************************************************************************)
(* finishedTasks of home.tsx called on its own                             *)
(***************************************************************************)
\* the lines of a batch that parses: the events of the log groups and an
\* event of another kind
StoredLines ==
    {l \in LogLines("gA") \cup LogLines("gB") :
        parseEcsTaskStateChangeEvent(l).type # "throw"}
    \cup {OtherEventLine}

\* the parsed events of a batch
ParsedEvents(events) ==
    [i \in 1..Len(events) |-> parseEcsTaskStateChangeEvent(events[i])]

\* the caches one listing request leaves behind
CachesAfterOne ==
    {storeFinishedTasks(EmptyRecord, env,
                        FinishedTasksOf(ParsedEvents(<<l>>))) :
         env \in EnvNames, l \in StoredLines}

\* the caches the store may find: nothing stored yet, or what one or two
\* listing requests have stored
StoreCaches ==
    {EmptyRecord} \cup CachesAfterOne
    \cup {storeFinishedTasks(cache, env,
                             FinishedTasksOf(ParsedEvents(<<l>>))) :
              cache \in CachesAfterOne, env \in EnvNames, l \in StoredLines}

\* finishedTasks after filterLogEvents has answered with events: map, filter,
\* reverse, storeFinishedTasks
FinishedTasksCall(cache, events) ==
    /\ call.op = "none"
    /\ currentEnvironmentName \in EnvNames
    /\ LET batch == FinishedTasksOf(ParsedEvents(events))
       IN  call' = [op |-> "finishedTasks", env |-> currentEnvironmentName,
                    logEvents |-> events, batch |-> batch,
                    cacheBefore |-> cache,
                    cacheAfter |-> storeFinishedTasks(
                                       cache, currentEnvironmentName, batch),
                    thrown |-> StoreThrows(batch)]
    /\ UNCHANGED currentEnvironmentName
    /\ CallFrame

(***************************************************************************)
(* Specification                                                           *)
(***************************************************************************)
Init ==
    /\ currentEnvironmentName = getDefaultEnvironmentName
    /\ finishedTaskCache = EmptyRecord
    /\ liveTasks \in SUBSET KnownArnSet
    /\ show = ShowIdle
    /\ home = HomeIdle
    /\ call = NoCall
    /\ logStream = 0
    /\ logRead = LogIdle
    /\ noted = NoNote

Next ==
    \/ /\ show.pc = "idle"
       /\ \E taskId \in RequestedTaskIds : ShowStart(taskId)
    \/ /\ show.pc = "awaitList"
       /\ \E ok \in BOOLEAN : ShowListReturn(ok)
    \/ /\ show.pc = "awaitDescribe"
       /\ \E ok \in BOOLEAN : ShowDescribeReturn(ok)
    \/ /\ show.pc = "awaitTaskDef"
       /\ \E ok \in BOOLEAN :
              \E answer \in IF ok
                            THEN TaskDefinitions \cup {undefined}
                            ELSE {undefined} :
                  ShowTaskDefReturn(ok, answer)
    \/ /\ show.pc = "awaitLogs"
       /\ \E ok \in BOOLEAN : ShowLogsReturn(ok)
    \/ ShowRespond
    \/ HomeStart
    \/ /\ home.pc = "awaitList"
       /\ \E ok \in BOOLEAN : HomeListReturn(ok)
    \/ /\ home.pc = "awaitDescribe"
       /\ \E ok \in BOOLEAN : HomeDescribeReturn(ok)
    \/ /\ home.pc = "awaitFilter"
       /\ \E ok \in BOOLEAN :
              \E events \in IF ok
                            THEN LogBatches(home.envConfig.log_group_name,
                                            MaxEvents)
                            ELSE {<<>>} :
                  HomeFilterReturn(ok, events)
    \/ HomeRespond
    \/ \E envName \in RequestedEnvironments : ConfigAction(envName)
    \/ \E arn \in KnownArnSet : TaskAppears(arn)
    \/ \E arn \in KnownArnSet : TaskVanishes(arn)

Spec == Init /\ [][Next]_vars

\* the functions of aws.ts and the config action, called one at a time
NextCalls ==
    \/ \E taskdef \in TaskDefinitions \cup {undefined}
                       \cup {PrefixedTaskDefinition(prefix) :
                                 prefix \in StreamPrefixes} :
          \E taskId \in RequestedTaskIds :
              \E containerName \in ContainerNames :
                  GetLogStreamCall(taskdef, taskId, containerName)
    \/ \E message \in DatedEventLines \cup {TextLine, NoDetailLine} :
          ParseCall(message)
    \/ \E counts \in [StatusSet -> TaskCounts] :
          \E failAt \in [StatusSet -> 0..2] : ListCall(counts, failAt)
    \/ \E arns \in DescribeInputs : DescribeTasksCall(arns)
    \/ \E arns \in TaskDefinitionArnInputs :
          \E answers \in [1..Len(arns) -> TaskDefinitionAnswers] :
              DescribeTaskDefinitionsCall(arns, answers)
    \/ \E envName \in PostedEnvironments : ConfigCall(envName)
    \/ \E cache \in StoreCaches :
          \E events \in BatchesOf(StoredLines, MaxEvents) :
              FinishedTasksCall(cache, events)
    \/ CallReturn

SpecCalls == Init /\ [][NextCalls]_vars

\* one read of a log stream that grows meanwhile
NextLogRead ==
    \/ \E limit \in LogLimits : LogStart(limit)
    \/ \E ok \in BOOLEAN : LogPageReturn(ok)
    \/ LogRespond
    \/ LogAppend

SpecLogRead == Init /\ [][NextLogRead]_vars

\* detail requests, listing requests and environment switches, with the
\* NotFound answers noted for their retries
NextHistory ==
    \/ /\ show.pc = "idle"
       /\ \E taskId \in HistoryTaskIds : ShowStart(taskId)
    \/ /\ show.pc = "awaitList"
       /\ \E ok \in BOOLEAN : ShowListReturn(ok)
    \/ /\ show.pc = "awaitDescribe"
       /\ \E ok \in BOOLEAN : ShowDescribeReturn(ok)
    \/ /\ show.pc = "awaitTaskDef"
       /\ ShowTaskDefReturn(TRUE, PrefixedTaskDefinition(<<"ecs">>))
    \/ /\ show.pc = "awaitLogs"
       /\ ShowLogsReturn(TRUE)
    \/ ShowRespondNoted
    \/ HomeStart
    \/ /\ home.pc = "awaitList"
       /\ \E ok \in BOOLEAN : HomeListReturn(ok)
    \/ /\ home.pc = "awaitDescribe"
       /\ \E ok \in BOOLEAN : HomeDescribeReturn(ok)
    \/ /\ home.pc = "awaitFilter"
       /\ \E ok \in BOOLEAN :
              \E events \in IF ok
                            THEN BatchesOf(HistoryLogLines(
                                               home.envConfig.log_group_name),
                                           MaxEvents)
                            ELSE {<<>>} :
                  HomeFilterReturn(ok, events)
    \/ HomeRespondNoted
    \/ \E envName \in EnvNames : ConfigAction(envName)

\* the cluster of prod runs the task the detail requests ask for, the
\* cluster of dev runs none
InitHistory ==
    /\ Init
    /\ liveTasks = {Arn("cB", "t1")}

SpecHistory == InitHistory /\ [][NextHistory]_vars

TypeOK ==
    /\ currentEnvironmentName \in EnvNames
    /\ DOMAIN finishedTaskCache \subseteq EnvNames
    /\ liveTasks \subseteq KnownArnSet

(***************************************************************************)
(* Properties                                                              *)
(***************************************************************************)
\* the id is the last "/"-separated segment of the arn, said without split
IsTrailingSegmentOf(id, arn) ==
    /\ \A i \in 1..Len(id) : id[i] # "/"
    /\ \/ arn = id
       \/ endsWith(arn, <<"/">> \o id)

\* the string begins with "ecs-svc/"
BeginsWithEcsSvc(startedBy) ==
    /\ startedBy # undefinedString
    /\ Len(startedBy) >= 2
    /\ startedBy[1] = "ecs-svc"
    /\ startedBy[2] = "/"

\* the detail request has finished resolving its task, one way or another
ShowResolved == show.resolved # "pending"

\* some identifier of the listing the detail request relies on ends with
\* "/" + id; where no listing call has answered, the listing is the one the
\* cluster of the request's environment gives now
ShowIdListed ==
    IF show.listCalls > 0 /\ show.pc # "awaitList"
    THEN \E i \in 1..Len(show.allTaskArns) :
             endsWith(show.allTaskArns[i], <<"/">> \o show.taskId)
    ELSE \E arn \in liveTasks :
             /\ arn[3] = show.envConfig.cluster_name[1]
             /\ endsWith(arn, <<"/">> \o show.taskId)

\* C1: a task id that is in the finished-task cache of the active environment
\* resolves to exactly the cached Task with no listEcsTaskArns call and no
\* describeTasks call, also when the id is in the live listing.
C1_CacheHitServedFromCache ==
    (show.pc # "idle" /\ show.cachedAtStart # undefined) =>
        /\ show.resolved = "cache"
        /\ show.task = show.cachedAtStart
        /\ show.listCalls = 0
        /\ show.describeCalls = 0

C1_Witness ==
    /\ show.pc = "awaitTaskDef"
    /\ show.cachedAtStart # undefined
    /\ ShowIdListed
    /\ show.resolved = "cache"

\* C2: getFinishedTask returns absent and never an error for an id that is
\* not cached for the active environment, also when nothing was ever stored
\* for that environment: the detail request then goes on to the live listing.
C2_UncachedLookupIsAbsent ==
    (show.pc # "idle" /\ show.cachedAtStart = undefined) =>
        /\ show.resolved # "TypeError"
        /\ show.listCalls = 1

\* C3: a task id that is not cached but is in the live listing is resolved
\* with exactly one listing call and exactly one describe call and yields the
\* described task (API failures and the vanished-task race set aside).
C3_LiveHitOneListOneDescribe ==
    ( /\ ShowResolved
      /\ show.cachedAtStart = undefined
      /\ ShowIdListed
      /\ show.resolved # "UpstreamError"
      /\ ~(show.resolved = "NotFound" /\ show.describeCalls = 1) ) =>
        /\ show.resolved = "live"
        /\ show.listCalls = 1
        /\ show.describeCalls = 1
        /\ show.task = DescribedTask(show.targetTaskArn)

\* C4: a task id that is neither cached nor in the live listing ends in
\* NotFound with no describe call (API failures set aside).
C4_MissEverywhereIsNotFound ==
    ( /\ ShowResolved
      /\ show.cachedAtStart = undefined
      /\ ~ShowIdListed
      /\ show.resolved # "UpstreamError" ) =>
        /\ show.resolved = "NotFound"
        /\ show.outcome = "NotFound"
        /\ show.describeCalls = 0

\* C5: when the id was found in the listing and describeTasks then answers
\* with an empty sequence, the detail request ends in NotFound: no undefined
\* task is returned and no task definition is looked up.
C5_VanishedTaskIsNotFound ==
    ( /\ show.describeCalls = 1
      /\ show.pc # "awaitDescribe"
      /\ show.resolved # "UpstreamError"
      /\ show.tasks = <<>> ) =>
        /\ show.pc = "done"
        /\ show.resolved = "NotFound"
        /\ show.outcome = "NotFound"
        /\ show.task = undefined
        /\ show.taskDefinition = undefined

C5_Witness ==
    /\ show.pc = "done"
    /\ show.describeCalls = 1
    /\ show.targetTaskArn # undefinedString
    /\ show.tasks = <<>>
    /\ show.resolved = "NotFound"

\* C6: after a listing request has stored its batch under environment E,
\* every task of the batch is found in E's map under the trailing segment of
\* its taskArn, as a task of that batch with that id; every key of every map
\* is the trailing segment of the taskArn stored under it.
C6_StoredUnderTrailingSegment ==
    /\ (home.pc = "done" /\ home.outcome = "ok") =>
          /\ home.storedUnder \in DOMAIN finishedTaskCache
          /\ \A i \in 1..Len(home.finishedTasks) :
                \E id \in DOMAIN finishedTaskCache[home.storedUnder] :
                    /\ IsTrailingSegmentOf(id, home.finishedTasks[i].taskArn)
                    /\ \E j \in 1..Len(home.finishedTasks) :
                          /\ finishedTaskCache[home.storedUnder][id] =
                                 home.finishedTasks[j]
                          /\ IsTrailingSegmentOf(id,
                                 home.finishedTasks[j].taskArn)
    /\ \A env \in DOMAIN finishedTaskCache :
          \A id \in DOMAIN finishedTaskCache[env] :
              IsTrailingSegmentOf(id, finishedTaskCache[env][id].taskArn)

C6_Witness ==
    /\ home.pc = "done"
    /\ home.outcome = "ok"
    /\ Len(home.finishedTasks) = 2
    /\ home.finishedTasks[1] # home.finishedTasks[2]
    /\ home.finishedTasks[1].taskArn = home.finishedTasks[2].taskArn

\* the parsed details of the log lines of a finished listing request
HomeParsedDetails ==
    [i \in 1..Len(home.events) |->
        parseEcsTaskStateChangeEvent(home.events[i]).detail]

\* C7: the finished-task view of a listing request holds no event whose
\* startedBy begins with "ecs-svc/" and holds every other parsed event, those
\* without startedBy included; no such excluded task is in the cache.
C7_ServiceTasksExcluded ==
    /\ (home.pc = "done" /\ home.outcome = "ok") =>
          /\ \A i \in 1..Len(home.events) :
                BeginsWithEcsSvc(HomeParsedDetails[i].startedBy) <=>
                    ~\E j \in 1..Len(home.finishedTasks) :
                         home.finishedTasks[j] = HomeParsedDetails[i]
          /\ Len(home.finishedTasks) =
                Cardinality({i \in 1..Len(home.events) :
                    ~BeginsWithEcsSvc(HomeParsedDetails[i].startedBy)})
    /\ \A env \in DOMAIN finishedTaskCache :
          \A id \in DOMAIN finishedTaskCache[env] :
              ~BeginsWithEcsSvc(finishedTaskCache[env][id].startedBy)

C7_Witness ==
    /\ home.pc = "done"
    /\ home.outcome = "ok"
    /\ \E i \in 1..Len(home.events) :
          BeginsWithEcsSvc(home.events[i].detail.startedBy)
    /\ \E i \in 1..Len(home.events) :
          ~BeginsWithEcsSvc(home.events[i].detail.startedBy)
    /\ Len(home.finishedTasks) = 1

\* the log line parses as an event envelope with a detail object
WellFormedLine(line) == line.type = "json" /\ "detail" \in DOMAIN line

\* C8: a log line that is not an event envelope is skipped: the listing
\* request completes and the well-formed events of the batch are returned
\* and stored.
C8_MalformedLineSkipped ==
    ( /\ home.pc = "done"
      /\ home.outcome # "UpstreamError"
      /\ \E i \in 1..Len(home.events) : ~WellFormedLine(home.events[i]) ) =>
        /\ home.outcome = "ok"
        /\ \A i \in 1..Len(home.events) :
              ( /\ WellFormedLine(home.events[i])
                /\ ~BeginsWithEcsSvc(home.events[i].detail.startedBy) ) =>
                  \E j \in 1..Len(home.finishedTasks) :
                      home.finishedTasks[j].taskArn =
                          home.events[i].detail.taskArn

\* C9: no entry of the finished-task cache is ever evicted: every step keeps
\* every environment's map and every key of it.
C9_CacheNeverEvicts ==
    [][ \A env \in DOMAIN finishedTaskCache :
            /\ env \in DOMAIN finishedTaskCache'
            /\ DOMAIN finishedTaskCache[env] \subseteq
                   DOMAIN finishedTaskCache'[env] ]_vars

C9_Witness ==
    /\ home.pc = "done"
    /\ home.outcome = "ok"
    /\ home.finishedTasks = <<>>
    /\ home.storedUnder \in DOMAIN finishedTaskCache
    /\ DOMAIN finishedTaskCache[home.storedUnder] # {}

\* the container definitions of the task definition of the detail request
ShowContainerDefinitions ==
    IF "containerDefinitions" \in DOMAIN show.taskDefinition
    THEN show.taskDefinition.containerDefinitions
    ELSE <<>>

\* C10: getLogStream returns absent, and raises nothing, for a container name
\* that is not among the task definition's container definitions and for a
\* container definition whose log driver is not "awslogs".
C10_NoStreamForUnknownOrForeignDriver ==
    (show.taskDefinition # undefined) =>
        \A i \in 1..Len(show.containerLogs) :
            LET name == show.containerLogs[i].containerName
                defs == ShowContainerDefinitions
                named == {k \in 1..Len(defs) : defs[k].name = name}
            IN  /\ named = {} => show.containerLogs[i].logStream = undefined
                /\ ( \E k \in named :
                        /\ \A j \in named : k <= j
                        /\ "logConfiguration" \in DOMAIN defs[k]
                        /\ defs[k].logConfiguration.logDriver # "awslogs" ) =>
                      show.containerLogs[i].logStream = undefined

C10_Witness ==
    /\ show.taskDefinition # undefined
    /\ Len(show.containerLogs) = 2
    /\ \A k \in 1..Len(ShowContainerDefinitions) :
          ShowContainerDefinitions[k].name # show.containerLogs[1].containerName
    /\ \E k \in 1..Len(ShowContainerDefinitions) :
          /\ ShowContainerDefinitions[k].name =
                 show.containerLogs[2].containerName
          /\ "logConfiguration" \in DOMAIN ShowContainerDefinitions[k]
          /\ ShowContainerDefinitions[k].logConfiguration.logDriver = "fluentd"
    /\ show.containerLogs[1].logStream = undefined
    /\ show.containerLogs[2].logStream = undefined

\* the stream prefix the first container definition of that name declares,
\* the empty string when it declares none
DeclaredPrefix(taskdef, containerName) ==
    LET defs == taskdef.containerDefinitions
        k == CHOOSE k \in 1..Len(defs) :
                 /\ defs[k].name = containerName
                 /\ \A j \in 1..(k - 1) : defs[j].name # containerName
        log == defs[k].logConfiguration
    IN  IF "options" \in DOMAIN log
           /\ "awslogs-stream-prefix" \in DOMAIN log.options
        THEN log.options["awslogs-stream-prefix"]
        ELSE <<>>

\* C11: for an awslogs container the stream name getLogStream returns is
\* prefix + "/" + containerName + "/" + taskId, where an unset or empty
\* prefix option counts as the empty string; split on "/", its last two
\* segments are containerName and taskId, whatever the prefix.
C11_StreamNameRoundTrip ==
    (call.op = "getLogStream" /\ call.logStream.type = "LogStream") =>
        LET prefix == DeclaredPrefix(call.taskdef, call.containerName)
            segments == split(call.logStream.stream)
        IN  /\ call.logStream.stream =
                   prefix \o <<"/">> \o call.containerName
                          \o <<"/">> \o call.taskId
            /\ Len(segments) >= 2
            /\ segments[Len(segments)] = call.taskId
            /\ segments[Len(segments) - 1] = call.containerName

C11_Witness ==
    /\ call.op = "getLogStream"
    /\ call.logStream.type = "LogStream"
    /\ DeclaredPrefix(call.taskdef, call.containerName) =
           <<"ecs", "/", "web">>
    /\ Len(split(call.logStream.stream)) = 4

\* the date fields of a task state change event
ListedDateFields ==
    {"createdAt", "executionStoppedAt", "pullStartedAt", "pullStoppedAt",
     "startedAt", "stoppingAt", "stoppedAt", "connectivityAt"}

\* C12: parseEcsTaskStateChangeEvent changes a field of detail only when it
\* is a listed date field whose value is present and string-typed, and then
\* into a date; an absent or otherwise typed value and every field outside
\* the list come out as they went in.
C12_OnlyStringDateFieldsConverted ==
    ( /\ call.op = "parseEcsTaskStateChangeEvent"
      /\ call.parsedEvent.type = "event" ) =>
        LET before == call.message.detail
            after == call.parsedEvent.detail
        IN  /\ DOMAIN after = DOMAIN before
            /\ \A key \in DOMAIN before :
                  after[key] # before[key] =>
                      /\ key \in ListedDateFields
                      /\ before[key].type = "string"
                      /\ after[key].type = "Date"

C12_Witness ==
    /\ call.op = "parseEcsTaskStateChangeEvent"
    /\ call.parsedEvent.type = "event"
    /\ "createdAt" \in DOMAIN call.message.detail
    /\ call.message.detail.createdAt = StringValue("d1")
    /\ call.parsedEvent.detail.createdAt.type = "Date"
    /\ call.message.detail.stopCode = StringValue("d1")
    /\ call.parsedEvent.detail.stopCode = StringValue("d1")
    /\ call.parsedEvent.detail.stoppedAt = undefined

\* C13: a listing that does not fail returns the identifiers of the RUNNING,
\* the PENDING and the STOPPED tasks, every one as often as the pages held
\* it and none twice within a status; for a status of N tasks it has made at
\* least N / 100 requests, rounded up.
C13_ListingFollowsEveryToken ==
    (call.op = "listEcsTaskArns" /\ call.listed.type = "fulfilled") =>
        /\ call.listed.arns =
               TaskIdentifiers("RUNNING", call.counts["RUNNING"])
               \o TaskIdentifiers("PENDING", call.counts["PENDING"])
               \o TaskIdentifiers("STOPPED", call.counts["STOPPED"])
        /\ \A i \in 1..Len(STATUSES) :
              /\ call.settled[i].requests * 100 >= call.counts[STATUSES[i]]
              /\ Cardinality({call.settled[i].arns[k] :
                                 k \in 1..Len(call.settled[i].arns)}) =
                     call.counts[STATUSES[i]]
              /\ Len(call.settled[i].arns) = call.counts[STATUSES[i]]

C13_Witness ==
    /\ call.op = "listEcsTaskArns"
    /\ call.listed.type = "fulfilled"
    /\ call.counts["RUNNING"] = MaxTasks
    /\ call.counts["STOPPED"] = 1
    /\ call.settled[1].requests = 2
    /\ Len(call.listed.arns) = MaxTasks + 1

\* C14: describeTasks called with no arns returns no tasks and sends no
\* command to the orchestration API.
C14_EmptyDescribeSendsNothing ==
    (call.op = "describeTasks" /\ call.arns = <<>>) =>
        /\ call.tasks = <<>>
        /\ call.commands = <<>>

C14_Witness ==
    /\ call.op = "describeTasks"
    /\ call.arns = <<>>
    /\ liveTasks # {}
    /\ call.commands = <<>>

\* C15: describeTaskDefinitions sends DescribeTaskDefinition at most once
\* per distinct task definition arn, also when arns repeats one.
C15_OneDescribePerTaskDefinition ==
    (call.op = "describeTaskDefinitions") =>
        \A i, j \in 1..Len(call.commands) :
            call.commands[i].taskDefinition = call.commands[j].taskDefinition
                => i = j

\* C20: a fan-out fails as a whole when one of its calls fails: a listing
\* one of whose per-status listings failed, and a describeTaskDefinitions
\* one of whose calls failed, is rejected and carries no result built from
\* the calls that succeeded.
C20_FanOutFailsAsAWhole ==
    /\ ( /\ call.op = "listEcsTaskArns"
         /\ \E i \in 1..Len(call.settled) :
                call.settled[i].type = "throw" ) =>
            /\ call.listed.type = "throw"
            /\ "arns" \notin DOMAIN call.listed
    /\ ( /\ call.op = "describeTaskDefinitions"
         /\ \E i \in 1..Len(call.raws) : call.raws[i].type = "throw" ) =>
            /\ call.defs.type = "throw"
            /\ "taskDefinitions" \notin DOMAIN call.defs

C20_Witness ==
    /\ call.op = "listEcsTaskArns"
    /\ call.settled[1].type = "fulfilled"
    /\ Len(call.settled[1].arns) = MaxTasks
    /\ call.settled[2].type = "throw"
    /\ call.settled[2].requests = 2
    /\ call.listed.type = "throw"

\* C16: once a request of the log read is answered with the token it
\* carried, no further request is outstanding: the read is over and has
\* returned the events collected so far.
C16_SameTokenEndsTheRead ==
    ( /\ logRead.requests > 0
      /\ logRead.outcome # "UpstreamError"
      /\ logRead.responseToken = logRead.requestToken ) =>
        /\ logRead.pc = "done"
        /\ logRead.outcome = "ok"

C16_Witness ==
    /\ logRead.pc = "done"
    /\ logRead.outcome = "ok"
    /\ logRead.requests = 3
    /\ logRead.responseToken = logRead.requestToken
    /\ Len(logRead.events) > 0

\* C17: a finished log read has returned at most limit events in total, and
\* they are the most recent events the stream held when the last request
\* was answered.
C17_AtMostLimitMostRecent ==
    (logRead.pc = "done" /\ logRead.outcome = "ok") =>
        /\ Len(logRead.events) <= logRead.limit
        /\ \A i \in 1..Len(logRead.events) :
              logRead.events[i] =
                  logRead.responseToken - Len(logRead.events) + i

\* C18: the config action called with a name that is not a configured
\* environment answers with an error and leaves the active name as it was.
C18_AbsentNameFails ==
    (call.op = "action" /\ call.newEnvironment \notin EnvNames) =>
        /\ call.response.type = "throw"
        /\ currentEnvironmentName = call.before

\* C19: the active environment name is always one of the available
\* environment names.
C19_ActiveEnvironmentAvailable == currentEnvironmentName \in EnvNames

\* the listing request waits for its live query: the list call or the
\* describe call of currentTasks has not settled
LiveQueryPending == home.pc \in {"awaitList", "awaitDescribe"}

\* the listing request has called filterLogEvents and the call is in flight
EventLogQueryInFlight == home.pc = "awaitFilter"

\* C24: the listing request starts the live query and the event-log query in
\* parallel: while the live query has not settled, the event-log query has
\* been issued as well.
C24_QueriesStartedTogether == LiveQueryPending => EventLogQueryInFlight

\* C25: describeTasks called with a batch that is not empty sends exactly
\* one DescribeTasks command, also for more than 100 arns: its cluster is
\* the second "/"-separated segment of the first arn and its task list is
\* the whole batch.
C25_OneDescribeForTheWholeBatch ==
    (call.op = "describeTasks" /\ call.arns # <<>>) =>
        /\ Len(call.commands) = 1
        /\ call.commands[1].cluster = <<call.arns[1][3]>>
        /\ call.commands[1].tasks = call.arns

C25_Witness ==
    /\ call.op = "describeTasks"
    /\ Len(call.arns) > 100
    /\ Len(call.commands) = 1
    /\ call.commands[1].cluster = <<"cB">>
    /\ Len(call.commands[1].tasks) = Len(call.arns)

\* C26: the tasks a listing request has written into the cache of an
\* environment were read from the log group that environment configures,
\* whatever setCurrentEnvironment calls ran while the request was suspended.
C26_StoredUnderTheEnvironmentRead ==
    (home.pc = "done" /\ home.outcome = "ok" /\ home.finishedTasks # <<>>) =>
        environmentsConfig[home.storedUnder].log_group_name =
            home.envConfig.log_group_name

\* the definition getLogStream finds for the i-th container of the detail
\* request
ShowContainerDefinition(i) ==
    FindContainer(show.taskDefinition.containerDefinitions,
                  show.containerLogs[i].containerName)

\* C30: for a container that is in the task definition with no log
\* configuration at all, getLogStream returns absent and the detail request
\* does not fail on it.
C30_NoLogConfigurationIsAbsent ==
    (show.taskDefinition # undefined) =>
        \A i \in 1..Len(show.containerLogs) :
            ( /\ ShowContainerDefinition(i) # undefined
              /\ "logConfiguration" \notin DOMAIN ShowContainerDefinition(i) )
            => /\ show.containerLogs[i].logStream = undefined
               /\ show.outcome # "TypeError"

\* the ids the cache holds for an environment
CacheIds(cache, env) == IF env \in DOMAIN cache THEN DOMAIN cache[env] ELSE {}

C22_RetryAfterListingHits ==
    ( /\ show.pc # "idle"
      /\ noted.stored
      /\ show.taskId = noted.taskId
      /\ EnvironmentOf(show.envConfig) = noted.env ) =>
        /\ show.resolved = "cache"
        /\ show.listCalls = 0
        /\ TrailingSegment(show.task.taskArn) = noted.taskId

C22_Witness ==
    /\ show.pc = "done"
    /\ show.outcome = "ok"
    /\ noted.stored
    /\ show.taskId = noted.taskId
    /\ EnvironmentOf(show.envConfig) = noted.env
    /\ show.resolved = "cache"

\* the cache entries a step writes
EntriesWritten ==
    UNION { { <<env, id>> :
                id \in {k \in CacheIds(finishedTaskCache', env) :
                           \/ k \notin CacheIds(finishedTaskCache, env)
                           \/ finishedTaskCache'[env][k] #
                                  finishedTaskCache[env][k]} } :
            env \in EnvNames }

IdOf(task) == TrailingSegment(task.taskArn)

EventsKeptFor(events, id) ==
    {k \in 1..Len(events) :
        LET detail == parseEcsTaskStateChangeEvent(events[k]).detail
        IN  NotServiceStarted(detail) /\ IdOf(detail) = id}

\* C28: of several tasks of one batch with the same trailing id the cache
\* holds the last of the batch afterwards, and as the batch is the events
\* reversed, that is the task of the earliest event of the id.
C28_LastOfBatchIsEarliestEvent ==
    (call.op = "finishedTasks" /\ ~call.thrown) =>
        \A i \in 1..Len(call.batch) :
            LET id == IdOf(call.batch[i])
                last == CHOOSE j \in 1..Len(call.batch) :
                            /\ IdOf(call.batch[j]) = id
                            /\ \A k \in (j + 1)..Len(call.batch) :
                                  IdOf(call.batch[k]) # id
                kept == EventsKeptFor(call.logEvents, id)
                earliest == CHOOSE k \in kept : \A l \in kept : k <= l
            IN  /\ call.cacheAfter[call.env][id] = call.batch[last]
                /\ call.cacheAfter[call.env][id] =
                       parseEcsTaskStateChangeEvent(
                           call.logEvents[earliest]).detail

C28_Witness ==
    /\ call.op = "finishedTasks"
    /\ ~call.thrown
    /\ Len(call.batch) = 2
    /\ IdOf(call.batch[1]) = IdOf(call.batch[2])
    /\ call.batch[1] # call.batch[2]
    /\ call.cacheAfter[call.env][IdOf(call.batch[1])] = call.batch[2]
    /\ call.batch[2] =
           parseEcsTaskStateChangeEvent(call.logEvents[1]).detail

\* parsing some event of the batch raises
ParseRaises(events) ==
    \E i \in 1..Len(events) :
        parseEcsTaskStateChangeEvent(events[i]).type = "throw"

\* C29: a listing request that fails because its list call, its describe
\* call or its event-log query fails or because parsing an event raises
\* leaves the cache as it was, and the cache is written only in the step
\* that follows the event-log answer, after every event has parsed.
C29_FailedListingLeavesCache ==
    [][ /\ ( /\ home.pc # "done"
             /\ home'.pc = "done"
             /\ \/ home'.outcome = "UpstreamError"
                \/ ParseRaises(home'.events) ) =>
                finishedTaskCache' = finishedTaskCache
        /\ finishedTaskCache' # finishedTaskCache =>
              /\ home.pc = "awaitFilter"
              /\ home'.pc = "done"
              /\ home'.outcome # "UpstreamError"
              /\ ~ParseRaises(home'.events) ]_vars

C29_Witness ==
    /\ home.pc = "done"
    /\ home.outcome = "SyntaxError"
    /\ Len(home.events) = 2
    /\ parseEcsTaskStateChangeEvent(home.events[1]).type = "event"
    /\ ~StoreThrows(<<parseEcsTaskStateChangeEvent(home.events[1]).detail>>)
    /\ finishedTaskCache = EmptyRecord

====
